---- MODULE Spec2Model ----
(***************************************************************************)
(* A model of scripts/task.py: the command-line client that submits a      *)
(* task to the task API, polls it and renders the result.                  *)
(*                                                                         *)
(* Python strings are sequences of one-character strings; a Python dict    *)
(* is the sequence of its (key, value) items in insertion order; None and  *)
(* an absent attribute are tagged records.                                 *)
(***************************************************************************)
EXTENDS Integers, Sequences, FiniteSets, TLC

VARIABLES
    input_fields,   \* build_enrichment_spec: its first argument
    output_fields,  \* build_enrichment_spec: its second argument
    built,          \* build_enrichment_spec: what it returned
    fmt_result,     \* a renderer's argument: a completed RunResult
    fmt_json,       \* which renderer: the JSON one (--json) or format_result
    rendered,       \* what the renderer returned or raised
    pc,             \* main: where control is
    args,           \* main: the parsed command line
    env,            \* main: os.environ's BROWSERUSE_API_KEY
    prepared,       \* main: input_data, task_spec, processor, domain filters, mcp_servers
    request,        \* the params of the task-creation call made
    createCalls,    \* how often client.beta.task_run.create was invoked
    retrieveCalls,  \* how often client.beta.task_run.retrieve was invoked
    run_id,         \* main: the run identifier read from the run handle
    now,            \* time.time()
    start,          \* poll_task: time.time() at its entry
    lastRetrieve,   \* how long the latest retrieve call took
    lastSleep,      \* how long the sleep after the latest retrieve call took
    polled,         \* the statuses retrieve has reported, oldest first
    result,         \* what the latest retrieve call returned
    pollOutcome,    \* how poll_task ended
    raised,         \* the exception the top-level handler caught
    stdout,         \* what was printed to standard output
    stderr,         \* what was printed to the error stream
    exitCode        \* the process's exit code

enrichVars == <<input_fields, output_fields, built>>

fmtVars == <<fmt_result, fmt_json, rendered>>

mainVars ==
    <<pc, args, env, prepared, request, createCalls, retrieveCalls, run_id, now, start,
      lastRetrieve, lastSleep, polled, result, pollOutcome, raised, stdout, stderr,
      exitCode>>

vars == <<enrichVars, fmtVars, mainVars>>

None == [tag |-> "None"]
Absent == [tag |-> "absent"]
Str(s) == [tag |-> "str", s |-> s]

(***************************************************************************)
(* Strings                                                                 *)
(***************************************************************************)
Whitespace == {" "}

\* c in s
Contains(s, c) == \E i \in 1..Len(s) : s[i] = c

\* s.find(c) for a c that occurs in s
IndexOf(s, c) == CHOOSE i \in 1..Len(s) : s[i] = c /\ \A j \in 1..(i - 1) : s[j] # c

\* s.split(sep): always at least one token, empty tokens kept
RECURSIVE Split(_, _)
Split(s, sep) ==
    IF ~Contains(s, sep) THEN <<s>>
    ELSE LET i == IndexOf(s, sep)
         IN  <<SubSeq(s, 1, i - 1)>> \o Split(SubSeq(s, i + 1, Len(s)), sep)

\* s.split(sep, 1) for an s that holds sep: the parts around its first sep
SplitOnce(s, sep) ==
    LET i == IndexOf(s, sep)
    IN  <<SubSeq(s, 1, i - 1), SubSeq(s, i + 1, Len(s))>>

RECURSIVE LStrip(_)
LStrip(s) == IF s # <<>> /\ Head(s) \in Whitespace THEN LStrip(Tail(s)) ELSE s

RECURSIVE RStrip(_)
RStrip(s) ==
    IF s # <<>> /\ s[Len(s)] \in Whitespace THEN RStrip(SubSeq(s, 1, Len(s) - 1)) ELSE s

\* s.strip()
Strip(s) == RStrip(LStrip(s))

\* s.replace(old, new) for one-character old and new
Replace(s, old, new) == [i \in 1..Len(s) |-> IF s[i] = old THEN new ELSE s[i]]

\* sep.join(parts)
RECURSIVE Join(_, _)
Join(sep, parts) ==
    IF parts = <<>> THEN <<>>
    ELSE IF Len(parts) = 1 THEN parts[1]
    ELSE parts[1] \o sep \o Join(sep, Tail(parts))

(***************************************************************************)
(* Dicts                                                                   *)
(***************************************************************************)
DictKeys(d) == [i \in 1..Len(d) |-> d[i].k]

DictKeySet(d) == {d[i].k : i \in 1..Len(d)}

\* d[k] = v: an existing key keeps its place, a new one goes last
DictSet(d, k, v) ==
    IF k \in DictKeySet(d)
    THEN [i \in 1..Len(d) |-> IF d[i].k = k THEN [k |-> k, v |-> v] ELSE d[i]]
    ELSE Append(d, [k |-> k, v |-> v])

(***************************************************************************)
(* build_enrichment_spec                                                   *)
(***************************************************************************)
StringProp == [type |-> "string"]

\* f"The {field.replace('_', ' ')} of the entity"
Description(field) ==
    <<"T", "h", "e", " ">> \o Replace(field, "_", " ")
        \o <<" ", "o", "f", " ", "t", "h", "e", " ", "e", "n", "t", "i", "t", "y">>

\* ParseInputPairs without the test for "=": a bare token becomes a key
RECURSIVE ParseInputPairsUnchecked(_, _)
ParseInputPairsUnchecked(pairs, acc) ==
    IF pairs = <<>> THEN acc
    ELSE LET pair == Head(pairs)
             kv == IF Contains(pair, "=") THEN SplitOnce(pair, "=") ELSE <<pair, <<>>>>
             key == Strip(kv[1])
             val == Strip(kv[2])
         IN  ParseInputPairsUnchecked(Tail(pairs),
                 [data |-> DictSet(acc.data, key, val),
                  props |-> DictSet(acc.props, key, StringProp)])

\* the loop over input_fields.split(","): acc is (input_data, input_props)
RECURSIVE ParseInputPairs(_, _)
ParseInputPairs(pairs, acc) ==
    IF pairs = <<>> THEN acc
    ELSE LET pair == Head(pairs)
         IN  IF Contains(pair, "=")
             THEN LET kv == SplitOnce(pair, "=")
                      key == Strip(kv[1])
                      val == Strip(kv[2])
                  IN  ParseInputPairs(Tail(pairs),
                          [data |-> DictSet(acc.data, key, val),
                           props |-> DictSet(acc.props, key, StringProp)])
             ELSE ParseInputPairs(Tail(pairs), acc)

\* the loop over output_fields.split(",")
RECURSIVE ParseOutputFields(_, _)
ParseOutputFields(fields, props) ==
    IF fields = <<>> THEN props
    ELSE LET field == Strip(Head(fields))
         IN  IF field # <<>>
             THEN ParseOutputFields(Tail(fields),
                      DictSet(props, field,
                          [type |-> "string", description |-> Description(field)]))
             ELSE ParseOutputFields(Tail(fields), props)

JsonSchema(props) ==
    [type |-> "json",
     json_schema |-> [type |-> "object",
                      properties |-> props,
                      required |-> DictKeys(props),
                      additionalProperties |-> FALSE]]

build_enrichment_spec(inf, outf) ==
    LET parsed == ParseInputPairs(Split(inf, ","), [data |-> <<>>, props |-> <<>>])
        output_props == ParseOutputFields(Split(outf, ","), <<>>)
    IN  [input_data |-> parsed.data,
         task_spec |-> [input_schema |-> JsonSchema(parsed.props),
                        output_schema |-> JsonSchema(output_props)]]

(***************************************************************************)
(* Results and their rendering                                             *)
(*                                                                         *)
(* A RunResult is [run, output]; output is Absent (no such attribute),     *)
(* None, or [tag |-> "output", type, content, basis]. content is           *)
(* [tag |-> "str", s], [tag |-> "dict", d] or None; a dict's values are    *)
(* [tag |-> "str", s], [tag |-> "int", n] or None. basis is Absent, None   *)
(* or [tag |-> "list", items]; a basis entry is [field, confidence,        *)
(* citations], each Absent when the entry lacks the attribute.             *)
(***************************************************************************)
List(items) == [tag |-> "list", items |-> items]

Ellipsis == <<".", ".", ".">>

ValueLimit == 200
ContentLimit == 2000
BasisLimit == 5
CitationLimit == 2

\* s[:n]
Take(s, n) == SubSeq(s, 1, IF Len(s) < n THEN Len(s) ELSE n)

Digit(d) == CASE d = 0 -> "0" [] d = 1 -> "1" [] d = 2 -> "2" [] d = 3 -> "3"
              [] d = 4 -> "4" [] d = 5 -> "5" [] d = 6 -> "6" [] d = 7 -> "7"
              [] d = 8 -> "8" [] d = 9 -> "9"

RECURSIVE Digits(_)
Digits(n) == IF n < 10 THEN <<Digit(n)>> ELSE Append(Digits(n \div 10), Digit(n % 10))

\* repr(v) of a string without quotes in it, an int or None
PyRepr(v) ==
    CASE v.tag = "str" -> <<"'">> \o v.s \o <<"'">>
      [] v.tag = "int" -> Digits(v.n)
      [] v.tag = "None" -> <<"N", "o", "n", "e">>

\* the items of repr(d), d a dict with string keys
RECURSIVE ReprItems(_)
ReprItems(d) ==
    IF d = <<>> THEN <<>>
    ELSE <<PyRepr(Str(Head(d).k)) \o <<":", " ">> \o PyRepr(Head(d).v)>>
             \o ReprItems(Tail(d))

\* str(v) of a string, an int, None or a dict
PyStr(v) ==
    CASE v.tag = "str" -> v.s
      [] v.tag = "int" -> Digits(v.n)
      [] v.tag = "None" -> <<"N", "o", "n", "e">>
      [] v.tag = "dict" -> <<"{">> \o Join(<<",", " ">>, ReprItems(v.d)) \o <<"}">>

\* bool(v): None, "", {} and [] are false
Truthy(v) ==
    CASE v.tag = "str" -> v.s # <<>>
      [] v.tag = "dict" -> v.d # <<>>
      [] v.tag = "list" -> v.items # <<>>
      [] v.tag = "int" -> v.n # 0
      [] v.tag = "output" -> TRUE
      [] OTHER -> FALSE

Ok(v) == [ok |-> TRUE, value |-> v]
Raise(e) == [ok |-> FALSE, exc |-> e]

TypeError(what) == [type |-> "TypeError", what |-> what]

\* TruncateContent cutting a content of exactly the limit too
TruncateContentAtLimit(s) ==
    IF Len(s) >= ContentLimit THEN Take(s, ContentLimit) \o Ellipsis ELSE s

\* line 144: content[:2000] + "..." if len(content) > 2000 else content
TruncateContent(s) ==
    IF Len(s) > ContentLimit THEN Take(s, ContentLimit) \o Ellipsis ELSE s

\* lines 136-141: one bullet per item of the content dict
RECURSIVE ResultBullets(_)
ResultBullets(d) ==
    IF d = <<>> THEN <<>>
    ELSE LET val_str == PyStr(Head(d).v)
             shown == IF Len(val_str) > ValueLimit
                      THEN Take(val_str, ValueLimit) \o Ellipsis ELSE val_str
         IN  <<[kind |-> "bullet", key |-> Head(d).k, s |-> shown]>>
                 \o ResultBullets(Tail(d))

\* lines 134-147: the lines for the output's content, or the exception
ContentLines(output) ==
    LET content == output.content
        output_type == output.type
    IN  IF output_type = "json" /\ content.tag = "dict"
        THEN Ok(<<[kind |-> "results_header"]>> \o ResultBullets(content.d))
        ELSE IF output_type = "text"
        THEN IF content.tag = "str"
             THEN Ok(<<[kind |-> "report_header"],
                       [kind |-> "content", s |-> TruncateContent(content.s)]>>)
             ELSE IF content.tag = "None"
             THEN Raise(TypeError("len() of None"))
             ELSE Raise(TypeError("a dict is no line to join"))
        ELSE Ok(<<[kind |-> "output_header", type |-> output_type],
                  [kind |-> "content", s |-> Take(PyStr(content), ContentLimit)]>>)

\* lines 157-159: at most two citation lines, or the exception
CitationLines(entry) ==
    IF entry.citations.tag = "absent" THEN Ok(<<>>)
    ELSE IF entry.citations.tag = "None" THEN Raise(TypeError("None[:2]"))
    ELSE Ok([i \in 1..Len(Take(entry.citations.items, CitationLimit)) |->
                [kind |-> "cite",
                 title |-> entry.citations.items[i].title,
                 url |-> entry.citations.items[i].url]])

\* lines 153-159 over the entries given
RECURSIVE BasisLines(_)
BasisLines(entries) ==
    IF entries = <<>> THEN Ok(<<>>)
    ELSE LET basis == Head(entries)
             field == IF basis.field.tag # "absent" THEN PyStr(basis.field)
                      ELSE <<"r", "e", "s", "u", "l", "t">>
             confidence == IF basis.confidence.tag # "absent" THEN PyStr(basis.confidence)
                           ELSE <<"u", "n", "k", "n", "o", "w", "n">>
             cites == CitationLines(basis)
             rest == BasisLines(Tail(entries))
         IN  IF ~cites.ok THEN cites
             ELSE IF ~rest.ok THEN rest
             ELSE Ok(<<[kind |-> "basis", field |-> field, confidence |-> confidence]>>
                         \o cites.value \o rest.value)

\* lines 150-159
CitationsBlock(output) ==
    IF output.basis.tag # "absent" /\ Truthy(output.basis)
    THEN LET lines == BasisLines(Take(output.basis.items, BasisLimit))
         IN  IF lines.ok
             THEN Ok(<<[kind |-> "blank"], [kind |-> "citations_header"]>> \o lines.value)
             ELSE lines
    ELSE Ok(<<>>)

\* the lines format_result joins with "\n", or the exception it raises
format_result(res) ==
    LET header == <<[kind |-> "task", run_id |-> res.run.run_id],
                    [kind |-> "status", status |-> res.run.status,
                     processor |-> res.run.processor],
                    [kind |-> "blank"]>>
    IN  IF res.output.tag # "absent" /\ Truthy(res.output)
        THEN LET body == ContentLines(res.output)
                 cites == CitationsBlock(res.output)
             IN  IF ~body.ok THEN body
                 ELSE IF ~cites.ok THEN cites
                 ELSE Ok(header \o body.value \o cites.value)
        ELSE Ok(header)

\* lines 276-279: the citations of one basis entry, or the exception
JsonCitations(b) ==
    IF b.citations.tag = "absent" THEN Ok(<<>>)
    ELSE IF b.citations.tag = "None" THEN Raise(TypeError("None is not iterable"))
    ELSE Ok([i \in 1..Len(b.citations.items) |->
                [title |-> b.citations.items[i].title,
                 url |-> b.citations.items[i].url]])

\* lines 272-282 over the entries given
RECURSIVE JsonBasis(_)
JsonBasis(entries) ==
    IF entries = <<>> THEN Ok(<<>>)
    ELSE LET b == Head(entries)
             cites == JsonCitations(b)
             rest == JsonBasis(Tail(entries))
         IN  IF ~cites.ok THEN cites
             ELSE IF ~rest.ok THEN rest
             ELSE Ok(<<[field |-> IF b.field.tag # "absent" THEN b.field ELSE None,
                        confidence |-> IF b.confidence.tag # "absent"
                                       THEN b.confidence ELSE None,
                        citations |-> cites.value]>> \o rest.value)

\* lines 261-283: the document main prints under --json, or the exception
json_result(res) ==
    LET Doc(out, basis) ==
            [run_id |-> res.run.run_id, status |-> res.run.status,
             processor |-> res.run.processor, output |-> out, basis |-> basis]
    IN  IF res.output.tag # "absent" /\ Truthy(res.output)
        THEN LET out == [type |-> res.output.type, content |-> res.output.content]
             IN  IF res.output.basis.tag # "absent"
                 THEN IF res.output.basis.tag = "None"
                      THEN Raise(TypeError("None is not iterable"))
                      ELSE LET basis == JsonBasis(res.output.basis.items)
                           IN  IF basis.ok
                               THEN Ok(Doc(out, List(basis.value)))
                               ELSE basis
                 ELSE Ok(Doc(out, Absent))
        ELSE Ok(Doc(Absent, Absent))

\* lines 259-285: the renderer main picks
Render(res, as_json) == IF as_json THEN json_result(res) ELSE format_result(res)

(***************************************************************************)
(* create_task and main                                                    *)
(***************************************************************************)
PollInterval == 2

Exit(code) == [tag |-> "exit", code |-> code]

\* [d.strip() for d in domains.split(",")]
DomainList(domains) ==
    LET parts == Split(domains, ",")
    IN  List([i \in 1..Len(parts) |-> Strip(parts[i])])

\* lines 204 and 212: " ".join(args.query) if args.query else None
JoinedQuery(query) == IF query # <<>> THEN Str(Join(<<" ">>, query)) ELSE None

\* lines 199-202: enrichment mode
EnrichRequest(a) ==
    IF ~Truthy(a.output)
    THEN Raise([usage |-> "Error: --enrich requires --output fields", help |-> FALSE])
    ELSE LET spec == build_enrichment_spec(a.enrich.s, a.output.s)
         IN  Ok([input_data |-> [tag |-> "dict", d |-> spec.input_data],
                 task_spec |-> spec.task_spec,
                 processor |-> a.processor])

\* ReportRequest leaving the processor of --processor in place
ReportRequestKeepsProcessor(a) ==
    LET query == JoinedQuery(a.query)
    IN  IF ~Truthy(query)
        THEN Raise([usage |-> "Error: --report requires a query", help |-> FALSE])
        ELSE Ok([input_data |-> query,
                 task_spec |-> [output_schema |-> [type |-> "text"]],
                 processor |-> a.processor])

\* lines 204-210: report mode
ReportRequest(a) ==
    LET query == JoinedQuery(a.query)
    IN  IF ~Truthy(query)
        THEN Raise([usage |-> "Error: --report requires a query", help |-> FALSE])
        ELSE Ok([input_data |-> query,
                 task_spec |-> [output_schema |-> [type |-> "text"]],
                 processor |-> "ultra"])

\* PlainRequest testing the list of words instead of the joined query
PlainRequestTestsWords(a) ==
    LET query == JoinedQuery(a.query)
    IN  IF a.query = <<>>
        THEN Raise([usage |-> "help", help |-> TRUE])
        ELSE Ok([input_data |-> query,
                 task_spec |-> None,
                 processor |-> a.processor])

\* lines 212-216: plain mode
PlainRequest(a) ==
    LET query == JoinedQuery(a.query)
    IN  IF ~Truthy(query)
        THEN Raise([usage |-> "help", help |-> TRUE])
        ELSE Ok([input_data |-> query,
                 task_spec |-> None,
                 processor |-> a.processor])

\* lines 193-216: the mode's input_data, task_spec and processor, or the usage error
SelectMode(a) ==
    IF Truthy(a.enrich) THEN EnrichRequest(a)
    ELSE IF a.report THEN ReportRequest(a)
    ELSE PlainRequest(a)

\* lines 219-224
DomainFilter(arg) == IF Truthy(arg) THEN DomainList(arg.s) ELSE None

\* lines 227-235
McpServers(a, e) ==
    LET browseruse_key == IF Truthy(a.browseruse_key) THEN a.browseruse_key ELSE e
    IN  IF Truthy(browseruse_key)
        THEN List(<<[type |-> "url",
                     url |-> "https://api.browser-use.com/mcp",
                     name |-> "browseruse",
                     headers |-> [Authorization |->
                         <<"B", "e", "a", "r", "e", "r", " ">> \o browseruse_key.s]]>>)
        ELSE None

\* lines 36-56: the params create_task passes to client.beta.task_run.create
create_task_params(p) ==
    [input |-> p.input_data,
     processor |-> p.processor,
     task_spec |-> IF p.task_spec # None THEN p.task_spec ELSE Absent,
     source_policy |->
         IF Truthy(p.include_domains) \/ Truthy(p.exclude_domains)
         THEN [include_domains |-> IF Truthy(p.include_domains)
                                   THEN p.include_domains ELSE Absent,
               exclude_domains |-> IF Truthy(p.exclude_domains)
                                   THEN p.exclude_domains ELSE Absent]
         ELSE Absent,
     mcp_servers |-> IF Truthy(p.mcp_servers) THEN p.mcp_servers ELSE Absent,
     betas |-> IF Truthy(p.mcp_servers) THEN List(<<"mcp-server-2025-07-17">>) ELSE Absent]

\* Handler without its sys.exit(1): main returns and the process exits 0
HandlerReturns(e) ==
    /\ raised' = e
    /\ stderr' = Append(stderr, [kind |-> "error", exc |-> e])
    /\ exitCode' = Exit(0)
    /\ pc' = "done"

\* lines 287-289: the top-level handler
Handler(e) ==
    /\ raised' = e
    /\ stderr' = Append(stderr, [kind |-> "error", exc |-> e])
    /\ exitCode' = Exit(1)
    /\ pc' = "done"

\* lines 193-235: what main hands to create_task
Prepared(mode, a, e) ==
    [input_data |-> mode.input_data,
     task_spec |-> mode.task_spec,
     processor |-> mode.processor,
     include_domains |-> DomainFilter(a.include_domains),
     exclude_domains |-> DomainFilter(a.exclude_domains),
     mcp_servers |-> McpServers(a, e)]

\* lines 193-235: the mode and its usage errors, the domain filters, the MCP servers
PrepareRequest ==
    /\ pc = "main"
    /\ LET mode == SelectMode(args)
       IN  IF mode.ok
           THEN /\ prepared' = Prepared(mode.value, args, env)
                /\ pc' = "create"
                /\ UNCHANGED <<stdout, stderr, exitCode>>
           ELSE /\ IF mode.exc.help
                   THEN stdout' = Append(stdout, [kind |-> "help"]) /\ UNCHANGED stderr
                   ELSE /\ stderr' = Append(stderr, [kind |-> "usage", msg |-> mode.exc.usage])
                        /\ UNCHANGED stdout
                /\ exitCode' = Exit(1)
                /\ pc' = "done"
                /\ UNCHANGED prepared
    /\ UNCHANGED <<args, env, request, createCalls, retrieveCalls, run_id, now, start,
                   lastRetrieve, lastSleep, polled, result, pollOutcome, raised>>
    /\ UNCHANGED <<enrichVars, fmtVars>>

MaxLatency == 2
MaxOversleep == 0

RunIds == {<<"r", "1">>}

\* the run handle create returns: the identifier under .run or on the handle itself
Handles == {[run |-> [run_id |-> id]] : id \in RunIds} \cup {[run_id |-> id] : id \in RunIds}

\* line 249: task_run.run.run_id if hasattr(task_run, 'run') else task_run.run_id
HandleRunId(h) == IF "run" \in DOMAIN h THEN Str(h.run.run_id) ELSE Str(h.run_id)

CreateErrors == {[type |-> "APIError", op |-> "create"]}
RetrieveErrors == {[type |-> "APIError", op |-> "retrieve"]}

\* ShortCircuits ignoring --no-wait when --json is given
ShortCircuitsUnlessJson(a) == a.no_wait /\ ~a.json

\* line 251
ShortCircuits(a) == a.no_wait

CreatedLine(id) ==
    <<"T", "a", "s", "k", " ", "c", "r", "e", "a", "t", "e", "d", ":", " ">> \o id.s

\* lines 238-257: the creation call returns a handle; --no-wait ends main here
CreateTaskReturns ==
    /\ pc = "create"
    /\ \E d \in 0..MaxLatency, h \in Handles :
        /\ request' = create_task_params(prepared)
        /\ createCalls' = createCalls + 1
        /\ now' = now + d
        /\ run_id' = HandleRunId(h)
        /\ IF ShortCircuits(args)
           THEN /\ stdout' = Append(stdout, [kind |-> "created", s |-> CreatedLine(run_id')])
                /\ exitCode' = Exit(0)
                /\ pc' = "done"
                /\ UNCHANGED <<stderr, start>>
           ELSE /\ stderr' = Append(stderr, [kind |-> "running", run_id |-> run_id'])
                /\ start' = now'
                /\ pc' = "poll"
                /\ UNCHANGED <<stdout, exitCode>>
    /\ UNCHANGED <<args, env, prepared, retrieveCalls, lastRetrieve, lastSleep, polled,
                   result, pollOutcome, raised>>
    /\ UNCHANGED <<enrichVars, fmtVars>>

\* CreateTaskRaises retrying the creation call instead of propagating its error
CreateTaskRetries ==
    /\ pc = "create"
    /\ \E d \in 0..MaxLatency :
        /\ request' = create_task_params(prepared)
        /\ createCalls' = createCalls + 1
        /\ now' = now + d
    /\ UNCHANGED <<pc, args, env, prepared, retrieveCalls, run_id, start, lastRetrieve,
                   lastSleep, polled, result, pollOutcome, raised, stdout, stderr,
                   exitCode>>
    /\ UNCHANGED <<enrichVars, fmtVars>>

\* lines 59 and 287-289: the creation call raises
CreateTaskRaises ==
    /\ pc = "create"
    /\ \E d \in 0..MaxLatency, e \in CreateErrors :
        /\ request' = create_task_params(prepared)
        /\ createCalls' = createCalls + 1
        /\ now' = now + d
        /\ Handler(e)
    /\ UNCHANGED <<args, env, prepared, retrieveCalls, run_id, start, lastRetrieve,
                   lastSleep, polled, result, pollOutcome, stdout>>
    /\ UNCHANGED <<enrichVars, fmtVars>>

(***************************************************************************)
(* poll_task                                                               *)
(***************************************************************************)
TimeoutError(id, timeout) == [type |-> "TimeoutError", run_id |-> id, timeout |-> timeout]

\* line 71
TaskFailed(run) == [type |-> "Exception", msg |-> "Task failed: ", run |-> run]

\* StillInTime letting an iteration start when the timeout has just elapsed
StillInTimeInclusive(t, t0, timeout) == t - t0 <= timeout

\* line 66
StillInTime(t, t0, timeout) == t - t0 < timeout

\* lines 66 and 73: the loop test; out of time raises TimeoutError
PollCheck ==
    /\ pc = "poll"
    /\ IF StillInTime(now, start, args.timeout)
       THEN /\ pc' = "retrieve"
            /\ UNCHANGED <<pollOutcome, raised, stderr, exitCode>>
       ELSE /\ pollOutcome' = "timeout"
            /\ Handler(TimeoutError(run_id, args.timeout))
    /\ UNCHANGED <<args, env, prepared, request, createCalls, retrieveCalls, run_id, now,
                   start, lastRetrieve, lastSleep, polled, result, stdout>>
    /\ UNCHANGED <<enrichVars, fmtVars>>

Terminal == {"completed", "failed"}
Statuses == {"queued", "running", "cancelling", "completed", "failed"}

Run(id, status, processor) == [run_id |-> id, status |-> status, processor |-> processor]

Output(type, content, basis) ==
    [tag |-> "output", type |-> type, content |-> content, basis |-> basis]

Citation == [title |-> <<"t">>, url |-> <<"u">>]

BasisEntry(field, confidence, citations) ==
    [field |-> field, confidence |-> confidence, citations |-> citations]

\* the outputs a completed run is retrieved with
MainOutputs ==
    { Absent, None,
      Output("text", Str(<<"o", "k">>), Absent),
      Output("text", Str(<<"o", "k">>), None),
      Output("json", [tag |-> "dict", d |-> <<[k |-> <<"x">>, v |-> Str(<<"1">>)]>>],
             List(<<BasisEntry(Str(<<"x">>), Absent, List(<<Citation>>))>>)),
      Output("text", Str(<<"o", "k">>),
             List(<<BasisEntry(Absent, Str(<<"h">>), None)>>)) }

\* StatusCase sleeping on the known in-progress statuses only
StatusCaseClosedSet(status) ==
    IF status = "completed" THEN "return"
    ELSE IF status \in {"queued", "running"} THEN "sleep"
    ELSE "raise"

\* lines 68-72: what poll_task does on a status
StatusCase(status) ==
    IF status = "completed" THEN "return"
    ELSE IF status = "failed" THEN "raise"
    ELSE "sleep"

\* what retrieve may return for the run
RetrieveResults(id, processor) ==
    {[run |-> Run(id, status, processor), output |-> Absent] :
        status \in Statuses \ {"completed"}}
    \cup {[run |-> Run(id, "completed", processor), output |-> o] : o \in MainOutputs}

\* lines 67-71: one status query that returns
Retrieve ==
    /\ pc = "retrieve"
    /\ \E d \in 0..MaxLatency, r \in RetrieveResults(run_id.s, request.processor) :
        /\ retrieveCalls' = retrieveCalls + 1
        /\ now' = now + d
        /\ lastRetrieve' = d
        /\ lastSleep' = 0
        /\ polled' = Append(polled, r.run.status)
        /\ result' = r
        /\ IF StatusCase(r.run.status) = "return"
           THEN /\ pollOutcome' = "completed"
                /\ pc' = "render"
                /\ UNCHANGED <<raised, stderr, exitCode>>
           ELSE IF StatusCase(r.run.status) = "raise"
           THEN /\ pollOutcome' = "failed"
                /\ Handler(TaskFailed(r.run))
           ELSE /\ pc' = "sleep"
                /\ UNCHANGED <<pollOutcome, raised, stderr, exitCode>>
    /\ UNCHANGED <<args, env, prepared, request, createCalls, run_id, start, stdout>>
    /\ UNCHANGED <<enrichVars, fmtVars>>

\* lines 67 and 287-289: the status query raises
RetrieveRaises ==
    /\ pc = "retrieve"
    /\ \E d \in 0..MaxLatency, e \in RetrieveErrors :
        /\ retrieveCalls' = retrieveCalls + 1
        /\ now' = now + d
        /\ lastRetrieve' = d
        /\ lastSleep' = 0
        /\ pollOutcome' = "error"
        /\ Handler(e)
    /\ UNCHANGED <<args, env, prepared, request, createCalls, run_id, start, polled,
                   result, stdout>>
    /\ UNCHANGED <<enrichVars, fmtVars>>

\* line 72: time.sleep(2) suspends for at least the interval
Sleep ==
    /\ pc = "sleep"
    /\ \E over \in 0..MaxOversleep :
        /\ now' = now + PollInterval + over
        /\ lastSleep' = PollInterval + over
    /\ pc' = "poll"
    /\ UNCHANGED <<args, env, prepared, request, createCalls, retrieveCalls, run_id,
                   start, lastRetrieve, polled, result, pollOutcome, raised, stdout,
                   stderr, exitCode>>
    /\ UNCHANGED <<enrichVars, fmtVars>>

\* lines 259-285: the result is rendered and printed, or the renderer raises
PrintResult ==
    /\ pc = "render"
    /\ LET r == Render(result, args.json)
       IN  IF r.ok
           THEN /\ stdout' = Append(stdout,
                        IF args.json THEN [kind |-> "json", doc |-> r.value]
                        ELSE [kind |-> "text", lines |-> r.value])
                /\ exitCode' = Exit(0)
                /\ pc' = "done"
                /\ UNCHANGED <<raised, stderr>>
           ELSE /\ Handler(r.exc)
                /\ UNCHANGED stdout
    /\ UNCHANGED <<args, env, prepared, request, createCalls, retrieveCalls, run_id, now,
                   start, lastRetrieve, lastSleep, polled, result, pollOutcome>>
    /\ UNCHANGED <<enrichVars, fmtVars>>

(***************************************************************************)
(* Bounded strings                                                         *)
(***************************************************************************)
RECURSIVE StringsUpTo(_, _)
StringsUpTo(alphabet, n) ==
    IF n = 0 THEN {<<>>}
    ELSE LET shorter == StringsUpTo(alphabet, n - 1)
         IN  shorter \cup {Append(s, c) : s \in shorter, c \in alphabet}

MaxInputLen == 4
MaxOutputLen == 3

InputAlphabet == {"a", "b", "=", ",", " "}
OutputAlphabet == {"x", "_", ",", " "}

\* the documented examples, beside every short string
ExampleInputs ==
    { <<"a", "=", "1", ",", "b", "=", "2">>,
      <<"a", "=", "1", ",", "a", "=", "2">>,
      <<"c", "o", "m", "p", "a", "n", "y", "_", "n", "a", "m", "e", "=",
        "S", "t", "r", "i", "p", "e", ",",
        "w", "e", "b", "s", "i", "t", "e", "=",
        "s", "t", "r", "i", "p", "e", ".", "c", "o", "m">> }

ExampleOutputs ==
    { <<"x", ",", "y">>,
      <<"f", "o", "u", "n", "d", "i", "n", "g", "_", "y", "e", "a", "r", ",",
        "f", "u", "n", "d", "i", "n", "g">> }

EnrichInputs == StringsUpTo(InputAlphabet, MaxInputLen) \cup ExampleInputs
EnrichOutputs == StringsUpTo(OutputAlphabet, MaxOutputLen) \cup ExampleOutputs

(***************************************************************************)
(* build_enrichment_spec applied to every bounded pair of field strings    *)
(***************************************************************************)
EnrichIdle ==
    /\ input_fields = <<>>
    /\ output_fields = <<>>
    /\ built = None

FmtIdle ==
    /\ fmt_result = None
    /\ fmt_json = FALSE
    /\ rendered = None

MainIdle ==
    /\ pc = "idle"
    /\ args = None
    /\ env = None
    /\ prepared = None
    /\ request = None
    /\ createCalls = 0
    /\ retrieveCalls = 0
    /\ run_id = None
    /\ now = 0
    /\ start = 0
    /\ lastRetrieve = 0
    /\ lastSleep = 0
    /\ polled = <<>>
    /\ result = None
    /\ pollOutcome = "none"
    /\ raised = None
    /\ stdout = <<>>
    /\ stderr = <<>>
    /\ exitCode = None

EnrichInit ==
    /\ input_fields \in EnrichInputs
    /\ output_fields \in EnrichOutputs
    /\ built = None
    /\ FmtIdle
    /\ MainIdle

BuildEnrichmentSpec ==
    /\ pc = "idle"
    /\ fmt_result = None
    /\ built = None
    /\ built' = build_enrichment_spec(input_fields, output_fields)
    /\ UNCHANGED <<input_fields, output_fields, fmtVars, mainVars>>

EnrichNext == BuildEnrichmentSpec

EnrichSpec == EnrichInit /\ [][EnrichNext]_vars

(***************************************************************************)
(* The renderers applied to bounded results                                *)
(***************************************************************************)
LenSlack == 2

\* a string of n characters, no two neighbours alike
Filled(n) == [i \in 1..n |-> Digit(i % 10)]

BoundaryLengths ==
    (0..LenSlack)
        \cup ((ValueLimit - LenSlack)..(ValueLimit + LenSlack))
        \cup ((ContentLimit - LenSlack)..(ContentLimit + LenSlack))

DictValues ==
    {Str(Filled(n)) : n \in BoundaryLengths} \cup {None, [tag |-> "int", n |-> 42]}

Dict1(v) == [tag |-> "dict", d |-> <<[k |-> <<"x">>, v |-> v]>>]

Dict2(v, w) == [tag |-> "dict", d |-> <<[k |-> <<"x">>, v |-> v], [k |-> <<"y">>, v |-> w]>>]

CitationLists ==
    {Absent, None, List(<<>>), List(<<Citation>>), List(<<Citation, Citation, Citation>>)}

BasisEntries ==
    {BasisEntry(f, c, cs) :
        f \in {Absent, Str(<<"x">>)}, c \in {Absent, Str(<<"h">>)}, cs \in CitationLists}

FullEntry == BasisEntry(Str(<<"x">>), Str(<<"h">>), List(<<Citation>>))

BasisValues ==
    {Absent, None, List(<<>>)}
        \cup {List(<<e>>) : e \in BasisEntries}
        \cup {List([i \in 1..(BasisLimit + 1) |-> FullEntry])}

FormatOutputs ==
    {Absent, None}
        \cup {Output(t, Str(Filled(n)), Absent) :
                t \in {"text", "json", "other"}, n \in BoundaryLengths}
        \cup {Output("other", None, Absent)}
        \cup {Output("json", Dict1(v), Absent) : v \in DictValues}
        \cup {Output("json", Dict2(v, Str(Filled(ValueLimit + 1))), Absent) : v \in DictValues}
        \cup {Output("json", [tag |-> "dict", d |-> <<>>], List(<<FullEntry>>))}
        \cup {Output("text", Str(Filled(n)), b) : n \in {0, 1}, b \in BasisValues}
        \cup {Output("json", Dict1(Str(Filled(1))), b) : b \in BasisValues}

FormatResults ==
    {[run |-> Run(<<"r", "1">>, "completed", "core"), output |-> o] : o \in FormatOutputs}

FormatInit ==
    /\ fmt_result \in FormatResults
    /\ fmt_json \in BOOLEAN
    /\ rendered = None
    /\ EnrichIdle
    /\ MainIdle

RenderResult ==
    /\ pc = "idle"
    /\ fmt_result # None
    /\ rendered = None
    /\ rendered' = Render(fmt_result, fmt_json)
    /\ UNCHANGED <<fmt_result, fmt_json, enrichVars, mainVars>>

FormatNext == RenderResult

FormatSpec == FormatInit /\ [][FormatNext]_vars

(***************************************************************************)
(* main, from the parsed command line to the exit                          *)
(***************************************************************************)
MaxTimeout == 3

Timeouts == (-1)..MaxTimeout

EmptyString == <<>>

Queries == {<<>>, <<EmptyString>>, <<EmptyString, EmptyString>>, <<<<"q">>, <<"r">>>>}

EnrichArgs == {None, Str(<<>>), Str(<<"a", "=", "1">>)}
OutputArgs == {None, Str(<<>>), Str(<<"x", ",", "y">>)}
Processors == {"base", "core", "ultra"}

Domains == Str(<<"a", ",", " ", "b">>)

\* --include-domains, --exclude-domains, --browseruse-key and BROWSERUSE_API_KEY
Filters ==
    { [include |-> None, exclude |-> None, key |-> None, env |-> None],
      [include |-> Domains, exclude |-> None, key |-> None, env |-> Str(<<"e">>)],
      [include |-> None, exclude |-> Domains, key |-> Str(<<"k">>), env |-> None],
      [include |-> Domains, exclude |-> Domains, key |-> Str(<<"k">>), env |-> Str(<<"e">>)] }

ArgsOf(query, processor, enrich, output, report, f, timeout, json, no_wait) ==
    [query |-> query, processor |-> processor, enrich |-> enrich, output |-> output,
     report |-> report, include_domains |-> f.include, exclude_domains |-> f.exclude,
     browseruse_key |-> f.key, timeout |-> timeout, json |-> json, no_wait |-> no_wait]

Init ==
    /\ pc = "main"
    /\ \E query \in Queries, processor \in Processors, enrich \in EnrichArgs,
          output \in OutputArgs, report \in BOOLEAN, f \in Filters, timeout \in Timeouts,
          json \in BOOLEAN, no_wait \in BOOLEAN :
        /\ args = ArgsOf(query, processor, enrich, output, report, f, timeout, json, no_wait)
        /\ env = f.env
    /\ prepared = None
    /\ request = None
    /\ createCalls = 0
    /\ retrieveCalls = 0
    /\ run_id = None
    /\ now = 0
    /\ start = 0
    /\ lastRetrieve = 0
    /\ lastSleep = 0
    /\ polled = <<>>
    /\ result = None
    /\ pollOutcome = "none"
    /\ raised = None
    /\ stdout = <<>>
    /\ stderr = <<>>
    /\ exitCode = None
    /\ EnrichIdle
    /\ FmtIdle

Next ==
    \/ PrepareRequest
    \/ CreateTaskReturns
    \/ CreateTaskRaises
    \/ PollCheck
    \/ Retrieve
    \/ RetrieveRaises
    \/ Sleep
    \/ PrintResult

Spec == Init /\ [][Next]_vars

(***************************************************************************)
(* poll_task, from its entry (main, line 257) to its return or raise       *)
(***************************************************************************)
PollInit ==
    /\ pc = "poll"
    /\ \E timeout \in Timeouts, json \in BOOLEAN, processor \in Processors :
        /\ args = ArgsOf(<<<<"q">>, <<"r">>>>, processor, None, None, FALSE,
                         [include |-> None, exclude |-> None, key |-> None, env |-> None],
                         timeout, json, FALSE)
        /\ env = None
        /\ prepared = Prepared(SelectMode(args).value, args, env)
    /\ request = create_task_params(prepared)
    /\ createCalls = 1
    /\ retrieveCalls = 0
    /\ run_id \in {Str(id) : id \in RunIds}
    /\ now \in 0..MaxLatency
    /\ start = now
    /\ lastRetrieve = 0
    /\ lastSleep = 0
    /\ polled = <<>>
    /\ result = None
    /\ pollOutcome = "none"
    /\ raised = None
    /\ stdout = <<>>
    /\ stderr = <<[kind |-> "running", run_id |-> run_id]>>
    /\ exitCode = None
    /\ EnrichIdle
    /\ FmtIdle

PollNext == PollCheck \/ Retrieve \/ RetrieveRaises \/ Sleep

\* the loop is single-threaded and blocking: a step that can be taken is taken
PollSpec == PollInit /\ [][PollNext]_vars /\ WF_vars(PollNext)

(***************************************************************************)
(* Properties                                                              *)
(***************************************************************************)
Last(seq) == seq[Len(seq)]

Elapsed == now - start

AllInProgress(statuses) == \A i \in 1..Len(statuses) : statuses[i] \notin Terminal

\* C1: poll_task returns the retrieved result as soon as a query reports
\* "completed", raises an error carrying the run as soon as one reports "failed",
\* raises TimeoutError only once the time since its entry is no longer below the
\* timeout, and on any other status sleeps at least the poll interval before it
\* tests the time and queries again.
C1_PollOutcomes ==
    /\ pollOutcome = "completed" =>
        /\ polled # <<>> /\ Last(polled) = "completed"
        /\ AllInProgress(SubSeq(polled, 1, Len(polled) - 1))
        /\ result.run.status = "completed"
        /\ pc = "render" /\ raised = None
    /\ pollOutcome = "failed" =>
        /\ polled # <<>> /\ Last(polled) = "failed"
        /\ AllInProgress(SubSeq(polled, 1, Len(polled) - 1))
        /\ raised = [type |-> "Exception", msg |-> "Task failed: ", run |-> result.run]
    /\ pollOutcome = "timeout" =>
        /\ AllInProgress(polled)
        /\ Elapsed >= args.timeout
        /\ raised = [type |-> "TimeoutError", run_id |-> run_id, timeout |-> args.timeout]
    /\ pollOutcome = "none" => AllInProgress(polled)
    /\ pc = "retrieve" => Elapsed < args.timeout
    /\ pc = "sleep" => polled # <<>> /\ Last(polled) \notin Terminal
    /\ (pc = "poll" /\ retrieveCalls > 0) =>
        /\ Last(polled) \notin Terminal
        /\ lastSleep >= PollInterval
    /\ pollOutcome # "error" => Len(polled) = retrieveCalls

\* a status outside the known vocabulary was slept on and the run then completed
C1_Witness ==
    /\ pollOutcome = "completed"
    /\ Len(polled) = 2
    /\ polled[1] = "cancelling"
    /\ lastRetrieve = 0

PollEnded == pollOutcome \in {"completed", "failed", "timeout"}

\* C2 as stated: poll_task ends within timeout + poll_interval of its entry.
C2_WithinTimeoutPlusInterval == PollEnded => Elapsed <= args.timeout + PollInterval

\* C2, amended: poll_task ends whenever its status queries return, each query
\* starts before the timeout has elapsed, and it ends before timeout + the time
\* its last query took + the time the sleep after that query took (with no
\* query made, at its entry).
C2_EndsWithinLastIteration ==
    /\ <>(pollOutcome # "none")
    /\ [](PollEnded =>
            IF retrieveCalls = 0 THEN Elapsed = 0
            ELSE Elapsed < args.timeout + lastRetrieve + lastSleep)

\* a slow last query took poll_task past timeout + poll_interval
C2_Witness ==
    /\ PollEnded
    /\ retrieveCalls > 0
    /\ Elapsed > args.timeout + PollInterval

EnrichMode(a) == a.enrich.tag = "str" /\ Len(a.enrich.s) > 0

NoQuery(a) == \A i \in 1..Len(a.query) : i = 1 /\ Len(a.query[i]) = 0

NoOutputFields(a) == a.output.tag = "None" \/ a.output = Str(<<>>)

UsageError(a) ==
    \/ EnrichMode(a) /\ NoOutputFields(a)
    \/ ~EnrichMode(a) /\ NoQuery(a)

\* C3: a usage error (enrichment without output fields, report or plain mode
\* without a query) exits with code 1, plain mode after printing the help, and
\* neither the creation nor the retrieval operation is invoked.
C3_UsageErrors ==
    UsageError(args) =>
        /\ createCalls = 0 /\ retrieveCalls = 0 /\ request = None
        /\ pc \in {"main", "done"}
        /\ pc = "done" =>
            /\ exitCode = Exit(1)
            /\ raised = None
            /\ (~EnrichMode(args) /\ ~args.report) <=> stdout = <<[kind |-> "help"]>>
            /\ (EnrichMode(args) \/ args.report) => (stdout = <<>> /\ Len(stderr) = 1)

\* report mode given a query of empty words only has exited 1
C3_Witness ==
    /\ pc = "done"
    /\ args.report /\ ~EnrichMode(args)
    /\ args.query = <<EmptyString>>
    /\ exitCode = Exit(1)

ReportMode(a) == ~EnrichMode(a) /\ a.report

\* C4: the request of report mode has processor "ultra", the text output
\* schema and the joined query as input, whatever --processor says; in the
\* other modes the processor is the one of --processor.
C4_ReportRequest ==
    request # None =>
        IF ReportMode(args)
        THEN /\ request.processor = "ultra"
             /\ request.task_spec = [output_schema |-> [type |-> "text"]]
             /\ request.input = Str(Join(<<" ">>, args.query))
        ELSE request.processor = args.processor

\* a report was requested with --processor base
C4_Witness ==
    /\ request # None
    /\ ReportMode(args)
    /\ args.processor = "base"
    /\ request.processor = "ultra"

\* C5: a run that passes validation invokes the creation operation exactly
\* once, never again after it raised, after "failed" or after a timeout, and an
\* error the creation call raises is the one the handler gets.
C5_CreatedOnce ==
    /\ createCalls <= 1
    /\ pc \in {"poll", "retrieve", "sleep", "render"} => createCalls = 1
    /\ pc = "done" => createCalls = (IF UsageError(args) THEN 0 ELSE 1)
    /\ (pc = "done" /\ createCalls = 1 /\ run_id = None) =>
        /\ raised \in CreateErrors
        /\ Last(stderr) = [kind |-> "error", exc |-> raised]

\* the run ended by a timeout, by "failed" or by the creation call raising
C5_Witness ==
    /\ pc = "done"
    /\ createCalls = 1
    /\ pollOutcome = "timeout"
    /\ retrieveCalls = 1

\* C6: with --no-wait and a creation that succeeded, main ends at once: no
\* status query, nothing rendered, the line naming the run identifier alone on
\* standard output, exit code 0.
C6_NoWait ==
    (args.no_wait /\ run_id # None) =>
        /\ pc = "done"
        /\ exitCode = Exit(0)
        /\ retrieveCalls = 0 /\ pollOutcome = "none" /\ result = None
        /\ stdout = <<[kind |-> "created",
                       s |-> <<"T", "a", "s", "k", " ", "c", "r", "e", "a", "t", "e", "d",
                               ":", " ">> \o run_id.s]>>
        /\ stderr = <<>>

\* --no-wait with --json and a timeout of 0
C6_Witness ==
    /\ args.no_wait /\ args.json /\ args.timeout = 0
    /\ run_id # None
    /\ exitCode = Exit(0)

Printed(kinds) == Len(stdout) = 1 /\ stdout[1].kind \in kinds

\* C7: an exception of the submission, the polling or the rendering reaches
\* the handler, which prints it to the error stream and exits 1 with nothing
\* on standard output; the exit code is 0 exactly when the completed run was
\* rendered or --no-wait returned after the submission.
C7_ExitCodes ==
    /\ pc # "done" => exitCode = None /\ raised = None
    /\ pc = "done" =>
        /\ exitCode \in {Exit(0), Exit(1)}
        /\ exitCode = Exit(0) <=>
            \/ pollOutcome = "completed" /\ Printed({"text", "json"})
            \/ args.no_wait /\ run_id # None /\ Printed({"created"})
        /\ raised # None =>
            /\ exitCode = Exit(1)
            /\ Last(stderr) = [kind |-> "error", exc |-> raised]
            /\ stdout = <<>>
        /\ pollOutcome \in {"failed", "timeout", "error"} => raised # None
        /\ (createCalls = 1 /\ run_id = None) => raised # None
        /\ (pollOutcome = "completed" /\ ~Printed({"text", "json"})) => raised # None

\* the renderer raised on a completed run
C7_Witness ==
    /\ pc = "done"
    /\ pollOutcome = "completed"
    /\ raised \in {TypeError("None is not iterable"), TypeError("None[:2]")}
    /\ exitCode = Exit(1)

Elements(seq) == {seq[i] : i \in 1..Len(seq)}

Commas(s) == Cardinality({i \in 1..Len(s) : s[i] = ","})

Schema(task_spec, side) ==
    IF side = "input" THEN task_spec.input_schema.json_schema
    ELSE task_spec.output_schema.json_schema

SchemaIsExactly(schema, names) ==
    /\ {schema.properties[i].k : i \in 1..Len(schema.properties)} = names
    /\ Len(schema.properties) = Cardinality(names)
    /\ Elements(schema.required) = names
    /\ Len(schema.required) = Cardinality(names)
    /\ \A i \in 1..Len(schema.properties) : schema.properties[i].v.type = "string"
    /\ schema.type = "object"
    /\ schema.additionalProperties = FALSE

\* C8: input_data holds an entry only for a token with "=", so no more entries
\* than tokens; the input schema's properties and required list are the keys
\* of input_data, the output schema's the non-empty trimmed output names; every
\* property is a string and neither schema allows additional properties.
C8_EnrichmentSpec ==
    built # None =>
        LET tokens == Split(input_fields, ",")
            pairs == {t \in Elements(tokens) : \E i \in 1..Len(t) : t[i] = "="}
            names == {Strip(t) : t \in Elements(Split(output_fields, ","))} \ {<<>>}
            data == built.input_data
        IN  /\ Len(tokens) = Commas(input_fields) + 1
            /\ Len(data) <= Len(tokens)
            /\ \A i \in 1..Len(data) :
                \E t \in pairs :
                    /\ data[i].k = Strip(SplitOnce(t, "=")[1])
                    /\ data[i].v = Strip(SplitOnce(t, "=")[2])
            /\ \A t \in pairs : Strip(SplitOnce(t, "=")[1]) \in DictKeySet(data)
            /\ Len(data) = Cardinality(DictKeySet(data))
            /\ SchemaIsExactly(Schema(built.task_spec, "input"), DictKeySet(data))
            /\ SchemaIsExactly(Schema(built.task_spec, "output"), names)
            /\ (input_fields = <<"a", "=", "1", ",", "b", "=", "2">>) =>
                data = <<[k |-> <<"a">>, v |-> <<"1">>], [k |-> <<"b">>, v |-> <<"2">>]>>
            /\ (output_fields = <<"x", ",", "y">>) =>
                built.task_spec.output_schema.json_schema.required = <<<<"x">>, <<"y">>>>

\* a token without "=" between two pairs was dropped
C8_Witness ==
    /\ built # None
    /\ input_fields = <<"a", "=", ",", "b">>
    /\ output_fields = <<"x", ",", " ">>
    /\ Len(built.input_data) = 1

HasOutput(res) == res.output.tag = "output"

NoBasis(res) ==
    HasOutput(res) /\ (res.output.basis.tag \in {"absent", "None"} \/ res.output.basis = List(<<>>))

\* C9: both renderers render a result whose output is absent or empty, or whose
\* output has no basis or a basis without a value, and the text of
\* format_result then has no citations block.
C9_TolerateNoBasis ==
    (rendered # None /\ (~HasOutput(fmt_result) \/ NoBasis(fmt_result))) =>
        /\ rendered.ok
        /\ ~fmt_json =>
            \A i \in 1..Len(rendered.value) : rendered.value[i].kind # "citations_header"

Truncated(s, limit) == IF Len(s) <= limit THEN s ELSE SubSeq(s, 1, limit) \o <<".", ".", ".">>

\* C10: format_result shows a text content of at most 2000 characters as it
\* is and a longer one as its first 2000 characters and the ellipsis; a value of
\* an object output likewise at 200 characters; no shown content is longer than
\* its limit and the ellipsis.
C10_Truncation ==
    (rendered # None /\ ~fmt_json /\ HasOutput(fmt_result) /\ rendered.ok) =>
        LET out == fmt_result.output
            lines == rendered.value
        IN  /\ (out.type = "text" /\ out.content.tag = "str") =>
                /\ lines[5] = [kind |-> "content", s |-> Truncated(out.content.s, 2000)]
            /\ (out.type = "json" /\ out.content.tag = "dict") =>
                \A i \in 1..Len(out.content.d) :
                    /\ lines[4 + i].kind = "bullet"
                    /\ lines[4 + i].key = out.content.d[i].k
                    /\ out.content.d[i].v.tag = "str" =>
                        lines[4 + i].s = Truncated(out.content.d[i].v.s, 200)
            /\ \A i \in 1..Len(lines) :
                /\ lines[i].kind = "content" => Len(lines[i].s) <= 2000 + 3
                /\ lines[i].kind = "bullet" => Len(lines[i].s) <= 200 + 3

\* a text of 2001 characters was cut to 2000 and the ellipsis
C10_Witness ==
    /\ rendered # None /\ ~fmt_json /\ HasOutput(fmt_result)
    /\ fmt_result.output.type = "text"
    /\ Len(fmt_result.output.content.s) = 2001
    /\ rendered.ok
    /\ Len(rendered.value[5].s) = 2003

====
